---- MODULE Spec2Model ----
(***************************************************************************)
(* Gossip reachability: the data model (src/src/model.py), the call        *)
(* admission rules (src/src/protocols.py), the canonical key               *)
(* (src/src/canonical.py), the serial and the level-parallel exploration   *)
(* engines (src/src/engine.py) and the random walk (src/src/metrics.py).   *)
(*                                                                         *)
(* Values.  An agent chr(ord("a")+i) is the integer i.  A secret is a      *)
(* tagged value: <<"str", c>> is the one-character string with code c      *)
(* (what Distribution.initial makes), <<"int", v>> is the Python int v     *)
(* (what a distribution rebuilt from a canonical key holds).  A tuple is   *)
(* a sequence, a frozenset a set, a dict a function on its keys.           *)
(***************************************************************************)
EXTENDS Integers, Sequences, FiniteSets, TLC

VARIABLES
    protocol,       \* ReachabilityEngine.protocol
    use_keys_mode,  \* ReachabilityEngine._use_keys_mode
    n,              \* argument n of bfs / bfs_parallel / random_run
    max_depth,      \* argument max_depth of bfs / bfs_parallel
    pc,             \* position of the driver that calls the engine
    seen,           \* bfs: seen
    layers,         \* bfs: layers
    queue,          \* bfs: queue
    transitions,    \* bfs: transitions
    result_s,       \* what bfs returned
    workers,        \* bfs_parallel: workers
    batch_size,     \* bfs_parallel: batch_size
    p_seen,         \* bfs_parallel: seen
    p_layers,       \* bfs_parallel: layers
    p_transitions,  \* bfs_parallel: transitions
    p_depth,        \* bfs_parallel: depth (the loop variable)
    frontier,       \* bfs_parallel: frontier_keys or frontier_states
    next_frontier,  \* bfs_parallel: next_frontier_keys or next_frontier_states
    args_list,      \* bfs_parallel: args_list, the batches of the current depth
    task,           \* the pool: task[i] in {"queued", "running", "done", "failed",
                    \* "cancelled"} per chunk
    task_out,       \* the pool: the results a finished chunk holds
    next_i,         \* bfs_parallel: how many batch results the loop has consumed
    pool,           \* the ProcessPoolExecutor: "none", "open" or "closed"
    result_p,       \* what bfs_parallel returned
    w_state,        \* random_run: state
    w_step,         \* random_run: step
    w_ret,          \* random_run: the returned number of calls, -1 while running
    c_d1,           \* canonical key comparison: a distribution
    c_d2,           \* canonical key comparison: a second distribution
    c_perm,         \* canonical key comparison: a relabeling of the agents
    c_k1,           \* canonical_key(c_d1.secrets)
    c_k1r,          \* canonical_key of c_d1 relabeled by c_perm
    c_k2            \* canonical_key(c_d2.secrets); canonical_key(c_k1) where a key is keyed again

engine_vars == <<protocol, use_keys_mode, n, max_depth, pc, seen, layers, queue,
                 transitions, result_s, workers, batch_size, p_seen, p_layers,
                 p_transitions, p_depth, frontier, next_frontier, args_list,
                 task, task_out, next_i, pool, result_p>>
walk_vars == <<w_state, w_step, w_ret>>
canon_vars == <<c_d1, c_d2, c_perm, c_k1, c_k1r, c_k2>>
vars == <<engine_vars, walk_vars, canon_vars>>

----------------------------------------------------------------------------
(* Bounds of the model and constants of the program.                       *)

MaxN == 4
MaxShallowDepth == 5
MaxWorkers == 2
MaxBatch == 2
MaxCanonN == 3
MaxSteps == 6
MaxCalls == 7
MaxKeyN == 6
MaxKnown == 18
DefaultMaxDepth == 10
DefaultBatchSize == 2048
OrdUpperA == 65

\* the names the constructor of ReachabilityEngine accepts
Protocols == {"ANY", "CO", "LNS", "TOK", "SPI", "ATK"}

----------------------------------------------------------------------------
(* Python's built-ins, as far as the program uses them.                    *)

Min(S) == CHOOSE x \in S : \A y \in S : x <= y
Max(S) == CHOOSE x \in S : \A y \in S : y <= x

\* sorted(S) for a set of ints
RECURSIVE Sorted(_)
Sorted(S) == IF S = {} THEN <<>> ELSE LET m == Min(S) IN <<m>> \o Sorted(S \ {m})

\* s < t for two tuples of ints
RECURSIVE TupleLess(_, _)
TupleLess(s, t) ==
    IF s = <<>> THEN t # <<>>
    ELSE IF t = <<>> THEN FALSE
    ELSE IF s[1] < t[1] THEN TRUE
    ELSE IF s[1] > t[1] THEN FALSE
    ELSE TupleLess(Tail(s), Tail(t))

\* k1 < k2 for two sort keys (-len, tuple)
KeyLess(k1, k2) == k1[1] < k2[1] \/ (k1[1] = k2[1] /\ TupleLess(k1[2], k2[2]))

\* list.sort(key=...) on a list of <<key, item>> pairs: the stable sort
RECURSIVE InsertByKey(_, _)
InsertByKey(sorted, p) ==
    IF sorted = <<>> THEN <<p>>
    ELSE IF KeyLess(p[1], Head(sorted)[1]) THEN <<p>> \o sorted
    ELSE <<Head(sorted)>> \o InsertByKey(Tail(sorted), p)

RECURSIVE SortPairs(_)
SortPairs(ps) ==
    IF ps = <<>> THEN <<>>
    ELSE InsertByKey(SortPairs(SubSeq(ps, 1, Len(ps) - 1)), ps[Len(ps)])

\* seq.index(x)
Index(seq, x) == Min({i \in 1..Len(seq) : seq[i] = x})

Range(seq) == {seq[i] : i \in 1..Len(seq)}

----------------------------------------------------------------------------
(* src/src/canonical.py                                                    *)

to_int(x) == IF x[1] = "int" THEN x[2] ELSE x[2] - OrdUpperA

\* _normalize_groups keeping the values that are integers already
normalize_groups_integers_only(secret_sets) ==
    [i \in 1..Len(secret_sets) |-> {to_int(v) : v \in {w \in secret_sets[i] : w[1] = "int"}}]

normalize_groups(secret_sets) ==
    [i \in 1..Len(secret_sets) |-> {to_int(v) : v \in secret_sets[i]}]

\* the ids in first-seen order: remap[v] is the position of v, less one
RECURSIVE FirstSeen(_, _, _)
FirstSeen(groups, i, order) ==
    IF i > Len(groups) THEN order
    ELSE LET fresh == SelectSeq(Sorted(groups[i]), LAMBDA v : v \notin Range(order))
         IN  FirstSeen(groups, i + 1, order \o fresh)

relabel_compact(groups) ==
    LET order == FirstSeen(groups, 1, <<>>)
        remap(v) == Index(order, v) - 1
    IN  [i \in 1..Len(groups) |-> Sorted({remap(v) : v \in groups[i]})]

canonical_key(secret_sets) ==
    LET groups == normalize_groups(secret_sets)
        sorted_groups ==
            SortPairs([i \in 1..Len(groups) |->
                          <<<<-Cardinality(groups[i]), Sorted(groups[i])>>, groups[i]>>])
        canon == relabel_compact([i \in 1..Len(sorted_groups) |-> sorted_groups[i][2]])
        sorted_canon ==
            SortPairs([i \in 1..Len(canon) |-> <<<<-Len(canon[i]), canon[i]>>, canon[i]>>])
    IN  [i \in 1..Len(sorted_canon) |-> sorted_canon[i][2]]

----------------------------------------------------------------------------
(* src/src/model.py                                                        *)

\* apply_call with line 23 lost: only the caller learns
apply_call_caller_only(dist, call) ==
    LET ia == Index(dist.agents, call[1])
        ib == Index(dist.agents, call[2])
        united == dist.secrets[ia] \cup dist.secrets[ib]
    IN  [agents |-> dist.agents,
         secrets |-> [dist.secrets EXCEPT ![ia] = united]]

\* apply_call with the symmetric difference in place of the union
apply_call_symmetric_difference(dist, call) ==
    LET ia == Index(dist.agents, call[1])
        ib == Index(dist.agents, call[2])
        united == (dist.secrets[ia] \ dist.secrets[ib]) \cup (dist.secrets[ib] \ dist.secrets[ia])
    IN  [agents |-> dist.agents,
         secrets |-> [dist.secrets EXCEPT ![ia] = united, ![ib] = united]]

\* apply_call with line 23 storing sa in place of united
apply_call_overwrite(dist, call) ==
    LET ia == Index(dist.agents, call[1])
        ib == Index(dist.agents, call[2])
        united == dist.secrets[ia] \cup dist.secrets[ib]
    IN  [agents |-> dist.agents,
         secrets |-> [dist.secrets EXCEPT ![ia] = united, ![ib] = dist.secrets[ia]]]

apply_call(dist, call) ==
    LET ia == Index(dist.agents, call[1])
        ib == Index(dist.agents, call[2])
        united == dist.secrets[ia] \cup dist.secrets[ib]
    IN  [agents |-> dist.agents,
         secrets |-> [dist.secrets EXCEPT ![ia] = united, ![ib] = united]]

is_final(dist) ==
    LET all_s == UNION Range(dist.secrets)
    IN  \A i \in 1..Len(dist.secrets) : all_s = dist.secrets[i]

Distribution_initial(k) ==
    [agents |-> [i \in 1..k |-> i - 1],
     secrets |-> [i \in 1..k |-> {<<"str", OrdUpperA + (i - 1)>>}]]

\* the tokens after a call with "tokens.add(b)" of line 55 left out
TokensAfter_token_dropped(tokens, call, proto) ==
    IF proto = "TOK"
    THEN tokens \ {call[1]}
    ELSE IF proto = "SPI" THEN tokens \ {call[2]}
    ELSE tokens

\* the tokens after a call with "tokens.discard(b)" of line 58 left out
TokensAfter_callee_keeps(tokens, call, proto) ==
    IF proto = "TOK"
    THEN IF call[1] \in tokens THEN (tokens \ {call[1]}) \cup {call[2]} ELSE tokens
    ELSE tokens

\* the tokens after a call with "tokens.remove(a)" of line 54 left out
TokensAfter_caller_keeps(tokens, call, proto) ==
    IF proto = "TOK"
    THEN IF call[1] \in tokens THEN tokens \cup {call[2]} ELSE tokens
    ELSE IF proto = "SPI" THEN tokens \ {call[2]}
    ELSE tokens

TokensAfter(tokens, call, proto) ==
    IF proto = "TOK"
    THEN IF call[1] \in tokens THEN (tokens \ {call[1]}) \cup {call[2]} ELSE tokens
    ELSE IF proto = "SPI" THEN tokens \ {call[2]}
    ELSE tokens

\* update recording the pair (lines 60-61) under CO alone
update_pairs_under_CO_only(state, call, proto) ==
    [distribution |-> apply_call(state.distribution, call),
     tokens       |-> TokensAfter(state.tokens, call, proto),
     called_pairs |-> IF proto = "CO" THEN state.called_pairs \cup {{call[1], call[2]}}
                      ELSE state.called_pairs]

\* update with new_pairs started empty instead of as a copy (line 60)
update_last_pair_only(state, call, proto) ==
    [distribution |-> apply_call(state.distribution, call),
     tokens       |-> TokensAfter(state.tokens, call, proto),
     called_pairs |-> {{call[1], call[2]}}]

update(state, call, proto) ==
    [distribution |-> apply_call(state.distribution, call),
     tokens       |-> TokensAfter(state.tokens, call, proto),
     called_pairs |-> state.called_pairs \cup {{call[1], call[2]}}]

\* initial with no tokens handed out
ProtocolState_initial_no_tokens(dist, proto) ==
    [distribution |-> dist, tokens |-> {}, called_pairs |-> {}]

ProtocolState_initial(dist, proto) ==
    [distribution |-> dist,
     tokens       |-> IF proto \in {"TOK", "SPI"} THEN Range(dist.agents) ELSE {},
     called_pairs |-> {}]

----------------------------------------------------------------------------
(* src/src/protocols.py                                                    *)

possible_calls(state) ==
    LET agents == state.distribution.agents
        k == Len(agents)
        pairs == [j \in 1..(k * k) |-> <<agents[((j - 1) \div k) + 1], agents[((j - 1) % k) + 1]>>]
    IN  SelectSeq(pairs, LAMBDA c : c[1] # c[2])

allow_ANY(state, call) == TRUE

\* allow_CO with the test of line 18 replaced by True
allow_CO_any_call(state, call) == TRUE

\* allow_CO with the "not" of line 18 lost
allow_CO_called_only(state, call) == {call[1], call[2]} \in state.called_pairs

allow_CO(state, call) == {call[1], call[2]} \notin state.called_pairs

\* allow_LNS with the test of line 26 replaced by True
allow_LNS_any_call(state, call) == TRUE

\* allow_LNS with caller and callee exchanged in line 26
allow_LNS_callee_gains(state, call) ==
    LET dist == state.distribution
        sa == dist.secrets[Index(dist.agents, call[1])]
        sb == dist.secrets[Index(dist.agents, call[2])]
    IN  ~(sa \subseteq sb)

allow_LNS(state, call) ==
    LET dist == state.distribution
        sa == dist.secrets[Index(dist.agents, call[1])]
        sb == dist.secrets[Index(dist.agents, call[2])]
    IN  ~(sb \subseteq sa)

allow_TOK(state, call) == call[1] \in state.tokens

allow_SPI(state, call) == call[1] \in state.tokens

\* the keys of ALLOW_MAP; ALLOW_MAP[protocol] raises KeyError for any other name
ALLOW_KEYS == {"ANY", "CO", "LNS", "TOK", "SPI"}

ALLOW_MAP(proto, state, call) ==
    CASE proto = "ANY" -> allow_ANY(state, call)
      [] proto = "CO"  -> allow_CO(state, call)
      [] proto = "LNS" -> allow_LNS(state, call)
      [] proto = "TOK" -> allow_TOK(state, call)
      [] proto = "SPI" -> allow_SPI(state, call)

permitted_calls(state, proto) ==
    SelectSeq(possible_calls(state), LAMBDA c : ALLOW_MAP(proto, state, c))

----------------------------------------------------------------------------
(* src/src/model.py, the keys-only factory methods                         *)

to_canonical_tuple(key_like) ==
    [i \in 1..Len(key_like) |-> [j \in 1..Len(key_like[i]) |-> key_like[i][j]]]

infer_n_from_key(key) ==
    LET ids == UNION {Range(key[i]) : i \in 1..Len(key)}
        max_idx == IF ids = {} THEN -1 ELSE Max(ids)
    IN  Max({Len(key), max_idx + 1, 0})

coerce_groups_to_sets(key_can) ==
    [i \in 1..Len(key_can) |-> {<<"int", v>> : v \in Range(key_can[i])}]

\* neither constructor call succeeds (Distribution takes agents and secrets),
\* so the distribution is initial(n) with its secrets replaced
dist_from_secrets(secrets_like) ==
    LET key_can == to_canonical_tuple(secrets_like)
        secrets_sets == coerce_groups_to_sets(key_can)
        dist == Distribution_initial(infer_n_from_key(key_can))
    IN  [agents |-> dist.agents, secrets |-> secrets_sets]

\* from_distribution finds itself as "existing" and recurses until the
\* interpreter refuses; the innermost frame that can still call
\* initial(dist, protocol) returns its value through all the others
ps_from_distribution(dist, proto) == ProtocolState_initial(dist, proto)

----------------------------------------------------------------------------
(* src/src/engine.py                                                       *)

HAS_DIST_FROM_CANONICAL == TRUE
HAS_DIST_FROM_SECRETS == TRUE
HAS_PS_FROM_DIST == TRUE
HAS_PS_INITIAL == TRUE

KEYS_MODE_AVAILABLE ==
    (HAS_DIST_FROM_CANONICAL \/ HAS_DIST_FROM_SECRETS) /\ (HAS_PS_FROM_DIST \/ HAS_PS_INITIAL)

build_state_from_key(key, proto) == ps_from_distribution(dist_from_secrets(key), proto)

\* layers.setdefault(d, set()).add(k)
SetDefaultAdd(l, d, k) ==
    IF d \in DOMAIN l THEN [l EXCEPT ![d] = @ \cup {k}] ELSE l @@ (d :> {k})

\* the dict every engine returns
Result(seen_, layers_, transitions_) ==
    [reachable_count |-> Cardinality(seen_),
     layers          |-> layers_,
     layer_sizes     |-> [d \in DOMAIN layers_ |-> Cardinality(layers_[d])],
     transitions     |-> transitions_]

\* _expand_batch, lines 74-83 and 94-103: the admitted calls of one parent
RECURSIVE ExpandCalls(_, _, _, _, _)
ExpandCalls(st, proto, calls, i, acc) ==
    IF i > Len(calls) THEN acc
    ELSE LET ns == update(st, calls[i], proto)
             k == canonical_key(ns.distribution.secrets)
         IN  IF k \in acc.local_seen THEN ExpandCalls(st, proto, calls, i + 1, acc)
             ELSE IF k \in acc.batch_seen
             THEN ExpandCalls(st, proto, calls, i + 1,
                              [acc EXCEPT !.local_seen = @ \cup {k}])
             ELSE ExpandCalls(st, proto, calls, i + 1,
                              [local_seen |-> acc.local_seen \cup {k},
                               batch_seen |-> acc.batch_seen \cup {k},
                               keys       |-> Append(acc.keys, k),
                               states     |-> Append(acc.states, ns)])

\* _expand_batch, lines 71-87 and 91-103: the items of the payload
RECURSIVE ExpandItems(_, _, _, _, _)
ExpandItems(mode, payload, proto, j, acc) ==
    IF j > Len(payload) THEN acc
    ELSE LET st == IF mode = "states" THEN payload[j]
                   ELSE build_state_from_key(payload[j], proto)
         IN  ExpandItems(mode, payload, proto, j + 1,
                         ExpandCalls(st, proto, permitted_calls(st, proto), 1,
                                     [acc EXCEPT !.local_seen = {}]))

\* error names the exception the call raises instead of returning: ValueError
\* for an unknown mode (lines 105-106), KeyError from permitted_calls for the
\* first item of the payload when the protocol has no entry in ALLOW_MAP
expand_batch(arg) ==
    IF arg.mode \notin {"states", "keys"}
    THEN [keys |-> <<>>, states |-> "None", error |-> "ValueError"]
    ELSE IF arg.payload # <<>> /\ arg.protocol \notin ALLOW_KEYS
    THEN [keys |-> <<>>, states |-> "None", error |-> "KeyError"]
    ELSE LET acc == ExpandItems(arg.mode, arg.payload, arg.protocol, 1,
                                [local_seen |-> {}, batch_seen |-> {},
                                 keys |-> <<>>, states |-> <<>>])
         IN  [keys |-> acc.keys,
              states |-> IF arg.mode = "states" THEN acc.states ELSE "None",
              error |-> "None"]

\* the slices of full length only, a shorter last slice left out
RECURSIVE chunked_full_only(_, _)
chunked_full_only(seq, size) ==
    IF Len(seq) < size THEN <<>>
    ELSE <<SubSeq(seq, 1, size)>> \o chunked_full_only(SubSeq(seq, size + 1, Len(seq)), size)

\* chunked / the slices frontier[i:i + batch_size]
RECURSIVE chunked(_, _)
chunked(seq, size) ==
    IF seq = <<>> THEN <<>>
    ELSE IF Len(seq) <= size THEN <<seq>>
    ELSE <<SubSeq(seq, 1, size)>> \o chunked(SubSeq(seq, size + 1, Len(seq)), size)

\* the loop of lines 148-159 with transitions += 1 moved under "if key not in seen"
RECURSIVE BfsExpand_counts_new_only(_, _, _, _, _, _)
BfsExpand_counts_new_only(state, depth, proto, calls, i, acc) ==
    IF i > Len(calls) THEN acc
    ELSE LET new_state == update(state, calls[i], proto)
             key == canonical_key(new_state.distribution.secrets)
         IN  IF key \in acc.local_seen
             THEN BfsExpand_counts_new_only(state, depth, proto, calls, i + 1, acc)
             ELSE IF key \notin acc.seen
             THEN BfsExpand_counts_new_only(state, depth, proto, calls, i + 1,
                            [local_seen  |-> acc.local_seen \cup {key},
                             transitions |-> acc.transitions + 1,
                             seen        |-> acc.seen \cup {key},
                             queue       |-> Append(acc.queue, <<new_state, depth + 1>>),
                             layers      |-> SetDefaultAdd(acc.layers, depth + 1, key)])
             ELSE BfsExpand_counts_new_only(state, depth, proto, calls, i + 1,
                            [acc EXCEPT !.local_seen = @ \cup {key}])

\* the admitted calls of the popped state, a successor with a visited key
\* enqueued like a new one
RECURSIVE BfsExpand_enqueue_visited(_, _, _, _, _, _)
BfsExpand_enqueue_visited(state, depth, proto, calls, i, acc) ==
    IF i > Len(calls) THEN acc
    ELSE LET new_state == update(state, calls[i], proto)
             key == canonical_key(new_state.distribution.secrets)
         IN  IF key \in acc.local_seen
             THEN BfsExpand_enqueue_visited(state, depth, proto, calls, i + 1, acc)
             ELSE BfsExpand_enqueue_visited(state, depth, proto, calls, i + 1,
                            [local_seen  |-> acc.local_seen \cup {key},
                             transitions |-> acc.transitions + 1,
                             seen        |-> acc.seen \cup {key},
                             queue       |-> Append(acc.queue, <<new_state, depth + 1>>),
                             layers      |-> SetDefaultAdd(acc.layers, depth + 1, key)])

\* bfs, lines 148-159: the admitted calls of the popped state
RECURSIVE BfsExpand(_, _, _, _, _, _)
BfsExpand(state, depth, proto, calls, i, acc) ==
    IF i > Len(calls) THEN acc
    ELSE LET new_state == update(state, calls[i], proto)
             key == canonical_key(new_state.distribution.secrets)
         IN  IF key \in acc.local_seen
             THEN BfsExpand(state, depth, proto, calls, i + 1, acc)
             ELSE IF key \notin acc.seen
             THEN BfsExpand(state, depth, proto, calls, i + 1,
                            [local_seen  |-> acc.local_seen \cup {key},
                             transitions |-> acc.transitions + 1,
                             seen        |-> acc.seen \cup {key},
                             queue       |-> Append(acc.queue, <<new_state, depth + 1>>),
                             layers      |-> SetDefaultAdd(acc.layers, depth + 1, key)])
             ELSE BfsExpand(state, depth, proto, calls, i + 1,
                            [acc EXCEPT !.local_seen = @ \cup {key},
                                        !.transitions = @ + 1])

\* the fold of lines 249-262 left at the first key that is already seen
RECURSIVE Merge_stop_at_seen(_, _, _, _, _)
Merge_stop_at_seen(keys_mode, out, depth, i, acc) ==
    IF i > Len(out.keys) THEN acc
    ELSE LET k == out.keys[i]
         IN  IF k \in acc.seen THEN acc
             ELSE Merge_stop_at_seen(keys_mode, out, depth, i + 1,
                        [seen |-> acc.seen \cup {k},
                         next_frontier |-> Append(acc.next_frontier,
                                                  IF keys_mode THEN k ELSE out.states[i]),
                         layers |-> SetDefaultAdd(acc.layers, depth + 1, k)])

\* the fold of lines 249-262 without the test of line 250
RECURSIVE Merge_no_seen_test(_, _, _, _, _)
Merge_no_seen_test(keys_mode, out, depth, i, acc) ==
    IF i > Len(out.keys) THEN acc
    ELSE LET k == out.keys[i]
         IN  Merge_no_seen_test(keys_mode, out, depth, i + 1,
                        [seen |-> acc.seen \cup {k},
                         next_frontier |-> Append(acc.next_frontier,
                                                  IF keys_mode THEN k ELSE out.states[i]),
                         layers |-> SetDefaultAdd(acc.layers, depth + 1, k)])

\* bfs_parallel, lines 249-262: one batch result folded into the run
RECURSIVE Merge(_, _, _, _, _)
Merge(keys_mode, out, depth, i, acc) ==
    IF i > Len(out.keys) THEN acc
    ELSE LET k == out.keys[i]
         IN  IF k \in acc.seen THEN Merge(keys_mode, out, depth, i + 1, acc)
             ELSE Merge(keys_mode, out, depth, i + 1,
                        [seen |-> acc.seen \cup {k},
                         next_frontier |-> Append(acc.next_frontier,
                                                  IF keys_mode THEN k ELSE out.states[i]),
                         layers |-> SetDefaultAdd(acc.layers, depth + 1, k)])

----------------------------------------------------------------------------
(* The values the variables of an operation hold while it is not running.  *)

NoState == [distribution |-> [agents |-> <<>>, secrets |-> <<>>],
            tokens |-> {}, called_pairs |-> {}]
NoDist == [agents |-> <<>>, secrets |-> <<>>]
NoResult == [reachable_count |-> 0, layers |-> <<>>, layer_sizes |-> <<>>,
             transitions |-> 0]

EngineFresh ==
    /\ seen = {} /\ layers = <<>> /\ queue = <<>> /\ transitions = 0
    /\ result_s = NoResult
    /\ workers = 0 /\ batch_size = 0
    /\ p_seen = {} /\ p_layers = <<>> /\ p_transitions = 0 /\ p_depth = 0
    /\ frontier = <<>> /\ next_frontier = <<>> /\ args_list = <<>>
    /\ task = <<>> /\ task_out = <<>> /\ next_i = 0 /\ pool = "none"
    /\ result_p = NoResult

EngineIdle == pc = "idle" /\ EngineFresh

WalkIdle == w_state = NoState /\ w_step = 0 /\ w_ret = -1

CanonIdle ==
    /\ c_d1 = NoDist /\ c_d2 = NoDist /\ c_perm = <<>>
    /\ c_k1 = <<>> /\ c_k1r = <<>> /\ c_k2 = <<>>

----------------------------------------------------------------------------
(* src/src/metrics.py: random_run, one random legal call sequence.         *)

WalkInit ==
    /\ protocol \in ALLOW_KEYS
    /\ use_keys_mode = FALSE
    /\ n \in 1..MaxN
    /\ max_depth = 0
    /\ EngineIdle
    /\ CanonIdle
    /\ w_state = ProtocolState_initial(Distribution_initial(n), protocol)
    /\ w_step = 0
    /\ w_ret = -1

\* lines 35-37 and 38-40: the run returns the number of calls used
RandomRunReturn ==
    /\ w_ret = -1
    /\ \/ w_step = MaxSteps
       \/ is_final(w_state.distribution)
       \/ permitted_calls(w_state, protocol) = <<>>
    /\ w_ret' = w_step
    /\ UNCHANGED <<w_state, w_step, engine_vars, canon_vars>>

\* line 41: state = state.update(random.choice(calls), protocol)
RandomRunStep ==
    /\ w_ret = -1
    /\ w_step < MaxSteps
    /\ ~is_final(w_state.distribution)
    /\ \E call \in Range(permitted_calls(w_state, protocol)) :
          w_state' = update(w_state, call, protocol)
    /\ w_step' = w_step + 1
    /\ UNCHANGED <<w_ret, engine_vars, canon_vars>>

WalkNext == RandomRunStep \/ RandomRunReturn

SpecWalk == WalkInit /\ [][WalkNext]_vars

-----------------------------------------------------------------------------
(* src/src/protocols.py and src/src/model.py as functions: every sequence  *)
(* of admitted calls from the initial state, continued past a final        *)
(* distribution, w_step counting the calls made.                           *)

\* state.update(c, protocol) for one c of permitted_calls(state, protocol)
CallStep ==
    /\ w_step < MaxCalls
    /\ \E call \in Range(permitted_calls(w_state, protocol)) :
          w_state' = update(w_state, call, protocol)
    /\ w_step' = w_step + 1
    /\ UNCHANGED <<w_ret, engine_vars, canon_vars>>

SpecCalls == WalkInit /\ [][CallStep]_vars

----------------------------------------------------------------------------
(* The canonical key as a function: two distributions grown from the       *)
(* initial one by calls, and one of them relabeled, are given to           *)
(* canonical_key.                                                          *)

Perms(k) == {f \in [0..(k - 1) -> 0..(k - 1)] : \A i, j \in 0..(k - 1) : f[i] = f[j] => i = j}

\* the secret of agent f[v] in place of the secret of agent v
RelabelSecret(x, f) == <<x[1], (x[2] - to_int(x)) + f[to_int(x)]>>

\* the distribution with agent i renamed f[i], in positions and in secret ids
Relabel(dist, f) ==
    [agents |-> dist.agents,
     secrets |-> [j \in 1..Len(dist.secrets) |->
         LET i == CHOOSE i \in 1..Len(dist.secrets) : f[i - 1] = j - 1
         IN  {RelabelSecret(x, f) : x \in dist.secrets[i]}]]

Isomorphic(d1, d2) ==
    /\ Len(d1.secrets) = Len(d2.secrets)
    /\ \E f \in Perms(Len(d1.secrets)) : Relabel(d1, f) = d2

CanonInit ==
    /\ protocol = "ANY"
    /\ use_keys_mode = FALSE
    /\ n \in 1..MaxCanonN
    /\ max_depth = 0
    /\ EngineIdle
    /\ WalkIdle
    /\ c_d1 = Distribution_initial(n)
    /\ c_d2 = Distribution_initial(n)
    /\ c_perm \in Perms(n)
    /\ c_k1 = canonical_key(c_d1.secrets)
    /\ c_k1r = canonical_key(Relabel(c_d1, c_perm).secrets)
    /\ c_k2 = canonical_key(c_d2.secrets)

CanonCall1 ==
    \E a, b \in 0..(n - 1) :
        /\ a # b
        /\ c_d1' = apply_call(c_d1, <<a, b>>)
        /\ c_k1' = canonical_key(c_d1'.secrets)
        /\ c_k1r' = canonical_key(Relabel(c_d1', c_perm).secrets)
        /\ UNCHANGED <<c_d2, c_k2, c_perm, engine_vars, walk_vars>>

CanonCall2 ==
    \E a, b \in 0..(n - 1) :
        /\ a # b
        /\ c_d2' = apply_call(c_d2, <<a, b>>)
        /\ c_k2' = canonical_key(c_d2'.secrets)
        /\ UNCHANGED <<c_d1, c_k1, c_k1r, c_perm, engine_vars, walk_vars>>

CanonNext == CanonCall1 \/ CanonCall2

SpecCanon == CanonInit /\ [][CanonNext]_vars

-----------------------------------------------------------------------------
(* The canonical key of a canonical key: canonical_key is given the key of *)
(* a distribution grown from the initial one by calls, as a worker would   *)
(* be that is handed a key.                                                *)

\* the groups _normalize_groups reads from a key: each tuple of ints as a set
KeyGroups(key) == [i \in 1..Len(key) |-> {<<"int", v>> : v \in Range(key[i])}]

\* the number of secrets known, summed over the agents
RECURSIVE Known(_, _)
Known(secrets, i) ==
    IF i > Len(secrets) THEN 0 ELSE Cardinality(secrets[i]) + Known(secrets, i + 1)

RekeyInit ==
    /\ protocol = "ANY"
    /\ use_keys_mode = FALSE
    /\ n \in 1..MaxKeyN
    /\ max_depth = 0
    /\ EngineIdle
    /\ WalkIdle
    /\ c_d1 = Distribution_initial(n)
    /\ c_d2 = NoDist
    /\ c_perm = <<>>
    /\ c_k1 = canonical_key(c_d1.secrets)
    /\ c_k1r = <<>>
    /\ c_k2 = canonical_key(KeyGroups(c_k1))

\* one more call, its key, and the key of its key
RekeyCall ==
    /\ Known(c_d1.secrets, 1) < MaxKnown
    /\ \E a, b \in 0..(n - 1) :
          /\ a # b
          /\ c_d1' = apply_call(c_d1, <<a, b>>)
          /\ c_k1' = canonical_key(c_d1'.secrets)
          /\ c_k2' = canonical_key(KeyGroups(c_k1'))
    /\ UNCHANGED <<c_d2, c_k1r, c_perm, engine_vars, walk_vars>>

SpecRekey == RekeyInit /\ [][RekeyCall]_vars

----------------------------------------------------------------------------
(* The engine, driven as tests/test_engine_smoke.py drives it (one engine, *)
(* bfs(n, max_depth) and then bfs_parallel(n, max_depth, workers,          *)
(* batch_size)) or as enumerator._run drives it (one engine and one of the *)
(* two calls).                                                             *)

\* names the constructor is given that are not protocol names
OtherNames == {"any", "XYZ", ""}

\* before ReachabilityEngine(protocol) is called
Init ==
    /\ protocol \in Protocols \cup OtherNames
    /\ use_keys_mode = FALSE
    /\ n \in 1..MaxN
    /\ max_depth \in (0..MaxShallowDepth) \cup {DefaultMaxDepth}
    /\ pc = "new"
    /\ EngineFresh
    /\ WalkIdle
    /\ CanonIdle

par_vars == <<workers, batch_size, p_seen, p_layers, p_transitions, p_depth, frontier,
              next_frontier, args_list, task, task_out, next_i, pool, result_p>>
bfs_vars == <<seen, layers, queue, transitions, result_s>>
input_vars == <<protocol, use_keys_mode, n, max_depth>>

\* __init__ without the assert of lines 120-121
Construct_no_assert ==
    /\ pc = "new"
    /\ use_keys_mode' = KEYS_MODE_AVAILABLE
    /\ pc' = "idle"
    /\ UNCHANGED <<protocol, n, max_depth, bfs_vars, par_vars, walk_vars, canon_vars>>

\* __init__, lines 119-123: the assert raises AssertionError for a name that
\* is not a protocol name, before any attribute is set
Construct ==
    /\ pc = "new"
    /\ IF protocol \in Protocols
       THEN /\ use_keys_mode' = KEYS_MODE_AVAILABLE
            /\ pc' = "idle"
       ELSE /\ pc' = "ctor_raised"
            /\ UNCHANGED use_keys_mode
    /\ UNCHANGED <<protocol, n, max_depth, bfs_vars, par_vars, walk_vars, canon_vars>>

\* bfs without the return of lines 136-142
BfsCall_no_shortcut ==
    /\ pc = "idle"
    /\ LET start_dist == Distribution_initial(n)
           root_state == ProtocolState_initial(start_dist, protocol)
           start_key == canonical_key(start_dist.secrets)
       IN  /\ seen' = {start_key}
           /\ layers' = (0 :> {start_key})
           /\ queue' = <<<<root_state, 0>>>>
           /\ transitions' = 0
           /\ pc' = "bfs"
           /\ UNCHANGED result_s
    /\ UNCHANGED <<input_vars, par_vars, walk_vars, canon_vars>>

\* bfs, lines 127-142
BfsCall ==
    /\ pc = "idle"
    /\ LET start_dist == Distribution_initial(n)
           root_state == ProtocolState_initial(start_dist, protocol)
           start_key == canonical_key(start_dist.secrets)
       IN  /\ seen' = {start_key}
           /\ layers' = (0 :> {start_key})
           /\ queue' = <<<<root_state, 0>>>>
           /\ transitions' = 0
           /\ IF max_depth = 0
              THEN /\ result_s' = Result({start_key}, (0 :> {start_key}), 0)
                   /\ pc' = "bfs_done"
              ELSE /\ pc' = "bfs"
                   /\ UNCHANGED result_s
    /\ UNCHANGED <<input_vars, par_vars, walk_vars, canon_vars>>

\* one iteration of the while loop with no test of depth against max_depth
BfsStep_no_depth_test ==
    /\ pc = "bfs"
    /\ queue # <<>>
    /\ protocol \in ALLOW_KEYS
    /\ LET state == Head(queue)[1]
           depth == Head(queue)[2]
           acc == BfsExpand(state, depth, protocol, permitted_calls(state, protocol), 1,
                            [local_seen |-> {}, transitions |-> transitions,
                             seen |-> seen, queue |-> Tail(queue), layers |-> layers])
       IN  /\ queue' = acc.queue
           /\ seen' = acc.seen
           /\ layers' = acc.layers
           /\ transitions' = acc.transitions
    /\ UNCHANGED <<pc, result_s, input_vars, par_vars, walk_vars, canon_vars>>

\* bfs, lines 144-159: one iteration of the while loop
BfsStep ==
    /\ pc = "bfs"
    /\ queue # <<>>
    /\ (Head(queue)[2] = max_depth \/ protocol \in ALLOW_KEYS)
    /\ LET state == Head(queue)[1]
           depth == Head(queue)[2]
           acc == BfsExpand(state, depth, protocol, permitted_calls(state, protocol), 1,
                            [local_seen |-> {}, transitions |-> transitions,
                             seen |-> seen, queue |-> Tail(queue), layers |-> layers])
       IN  IF depth = max_depth
           THEN /\ queue' = Tail(queue)
                /\ UNCHANGED <<seen, layers, transitions>>
           ELSE /\ queue' = acc.queue
                /\ seen' = acc.seen
                /\ layers' = acc.layers
                /\ transitions' = acc.transitions
    /\ UNCHANGED <<pc, result_s, input_vars, par_vars, walk_vars, canon_vars>>

\* bfs, line 148: permitted_calls raises KeyError and bfs returns nothing
BfsRaise ==
    /\ pc = "bfs"
    /\ queue # <<>>
    /\ Head(queue)[2] # max_depth
    /\ protocol \notin ALLOW_KEYS
    /\ pc' = "bfs_raised"
    /\ UNCHANGED <<seen, layers, queue, transitions, result_s, input_vars, par_vars,
                   walk_vars, canon_vars>>

\* bfs, lines 161-166
BfsReturn ==
    /\ pc = "bfs"
    /\ queue = <<>>
    /\ result_s' = Result(seen, layers, transitions)
    /\ pc' = "bfs_done"
    /\ UNCHANGED <<seen, layers, queue, transitions, input_vars, par_vars, walk_vars,
                   canon_vars>>

\* bfs_parallel, lines 182-213
ParCall ==
    /\ pc \in {"idle", "bfs_done"}
    /\ \E w \in 1..MaxWorkers, bs \in (1..MaxBatch) \cup {DefaultBatchSize} :
          /\ workers' = Max({1, w})
          /\ batch_size' = bs
    /\ LET start_dist == Distribution_initial(n)
           start_key == canonical_key(start_dist.secrets)
       IN  /\ frontier' = IF use_keys_mode THEN <<start_key>>
                          ELSE <<ProtocolState_initial(start_dist, protocol)>>
           /\ p_seen' = {start_key}
           /\ p_layers' = (0 :> {start_key})
           /\ p_transitions' = 0
           /\ IF max_depth = 0
              THEN /\ result_p' = Result({start_key}, (0 :> {start_key}), 0)
                   /\ pc' = "done"
                   /\ pool' = pool
              ELSE /\ pool' = "open"
                   /\ pc' = "par_loop"
                   /\ UNCHANGED result_p
    /\ p_depth' = 0
    /\ UNCHANGED <<next_frontier, args_list, task, task_out, next_i, input_vars, bfs_vars,
                   walk_vars, canon_vars>>

\* cs, line 238
ChunkSize(n_args, w) == IF n_args > 0 THEN Max({1, n_args \div (w * 4)}) ELSE 1

\* the dispatch without the break of lines 221-222
ParDispatch_empty_frontier ==
    /\ pc = "par_loop"
    /\ p_depth < max_depth
    /\ LET batches == chunked(frontier, batch_size)
           mode == IF use_keys_mode THEN "keys" ELSE "states"
           args == [i \in 1..Len(batches) |->
                       [mode |-> mode, payload |-> batches[i], protocol |-> protocol]]
           cs == ChunkSize(Len(args), workers)
           n_chunks == (Len(args) + cs - 1) \div cs
       IN  /\ args_list' = args
           /\ task' = [i \in 1..n_chunks |-> "queued"]
           /\ task_out' = [i \in 1..n_chunks |-> <<>>]
    /\ next_frontier' = <<>>
    /\ next_i' = 0
    /\ pc' = "par_map"
    /\ UNCHANGED <<workers, batch_size, p_seen, p_layers, p_transitions, p_depth, frontier,
                   pool, result_p, input_vars, bfs_vars, walk_vars, canon_vars>>

\* bfs_parallel, lines 214-246: a depth with a non-empty frontier is split into
\* batches and every chunk of batches is submitted to the pool
ParDispatch ==
    /\ pc = "par_loop"
    /\ p_depth < max_depth
    /\ Len(frontier) # 0
    /\ LET batches == chunked(frontier, batch_size)
           mode == IF use_keys_mode THEN "keys" ELSE "states"
           args == [i \in 1..Len(batches) |->
                       [mode |-> mode, payload |-> batches[i], protocol |-> protocol]]
           cs == ChunkSize(Len(args), workers)
           n_chunks == (Len(args) + cs - 1) \div cs
       IN  /\ args_list' = args
           /\ task' = [i \in 1..n_chunks |-> "queued"]
           /\ task_out' = [i \in 1..n_chunks |-> <<>>]
    /\ next_frontier' = <<>>
    /\ next_i' = 0
    /\ pc' = "par_map"
    /\ UNCHANGED <<workers, batch_size, p_seen, p_layers, p_transitions, p_depth, frontier,
                   pool, result_p, input_vars, bfs_vars, walk_vars, canon_vars>>

\* the chunk that holds the result of batch i + 1
ChunkIndex(i) == (i \div ChunkSize(Len(args_list), workers)) + 1

\* the batches of chunk i
ChunkOf(i) ==
    LET cs == ChunkSize(Len(args_list), workers)
    IN  SubSeq(args_list, (i - 1) * cs + 1, Min({i * cs, Len(args_list)}))

\* a free worker process takes the oldest chunk of the call queue; a chunk
\* already handed to the call queue is still taken after the loop has raised
WorkerTake(i) ==
    /\ pc \in {"par_map", "par_unwind"}
    /\ task[i] = "queued"
    /\ \A j \in 1..(i - 1) : task[j] # "queued"
    /\ Cardinality({j \in DOMAIN task : task[j] = "running"}) < workers
    /\ task' = [task EXCEPT ![i] = "running"]
    /\ UNCHANGED <<workers, batch_size, p_seen, p_layers, p_transitions, p_depth, frontier,
                   next_frontier, args_list, task_out, next_i, pool, result_p, pc,
                   input_vars, bfs_vars, walk_vars, canon_vars>>

\* the worker maps _expand_batch over its chunk and sends the results back,
\* or the exception if a call of the chunk raised
WorkerFinish(i) ==
    /\ pc \in {"par_map", "par_unwind"}
    /\ task[i] = "running"
    /\ LET chunk == ChunkOf(i)
           outs == [j \in 1..Len(chunk) |-> expand_batch(chunk[j])]
       IN  /\ task' = [task EXCEPT ![i] =
                          IF \E j \in 1..Len(chunk) : outs[j].error # "None"
                          THEN "failed" ELSE "done"]
           /\ task_out' = [task_out EXCEPT ![i] = outs]
    /\ UNCHANGED <<workers, batch_size, p_seen, p_layers, p_transitions, p_depth, frontier,
                   next_frontier, args_list, next_i, pool, result_p, pc,
                   input_vars, bfs_vars, walk_vars, canon_vars>>

\* the loop body with the exception of a chunk taken as its result: the
\* loop goes on with the keys the chunk sent, which are none
ParConsume_skip_failed ==
    /\ pc = "par_map"
    /\ next_i < Len(args_list)
    /\ LET cs == ChunkSize(Len(args_list), workers)
           c == ChunkIndex(next_i)
           out == task_out[c][(next_i % cs) + 1]
           acc == Merge(use_keys_mode, out, p_depth, 1,
                        [seen |-> p_seen, next_frontier |-> next_frontier,
                         layers |-> p_layers])
       IN  /\ task[c] \in {"done", "failed"}
           /\ p_transitions' = p_transitions + Len(out.keys)
           /\ p_seen' = acc.seen
           /\ next_frontier' = acc.next_frontier
           /\ p_layers' = acc.layers
    /\ next_i' = next_i + 1
    /\ UNCHANGED <<workers, batch_size, p_depth, frontier, args_list, task, task_out, pool,
                   result_p, pc, input_vars, bfs_vars, walk_vars, canon_vars>>

\* the loop body run without waiting for the chunk: a result that has not
\* arrived is taken to be empty
ParConsume_no_wait ==
    /\ pc = "par_map"
    /\ next_i < Len(args_list)
    /\ LET cs == ChunkSize(Len(args_list), workers)
           c == ChunkIndex(next_i)
           out == IF task[c] \in {"done", "failed"} THEN task_out[c][(next_i % cs) + 1]
                  ELSE [keys |-> <<>>, states |-> <<>>, error |-> "None"]
           acc == Merge(use_keys_mode, out, p_depth, 1,
                        [seen |-> p_seen, next_frontier |-> next_frontier,
                         layers |-> p_layers])
       IN  /\ p_transitions' = p_transitions + Len(out.keys)
           /\ p_seen' = acc.seen
           /\ next_frontier' = acc.next_frontier
           /\ p_layers' = acc.layers
    /\ next_i' = next_i + 1
    /\ UNCHANGED <<workers, batch_size, p_depth, frontier, args_list, task, task_out, pool,
                   result_p, pc, input_vars, bfs_vars, walk_vars, canon_vars>>

\* bfs_parallel, lines 245-262: the loop body for the next result of ex.map,
\* which yields the results in the order of args_list
ParConsume ==
    /\ pc = "par_map"
    /\ next_i < Len(args_list)
    /\ LET cs == ChunkSize(Len(args_list), workers)
           c == ChunkIndex(next_i)
           out == task_out[c][(next_i % cs) + 1]
           acc == Merge(use_keys_mode, out, p_depth, 1,
                        [seen |-> p_seen, next_frontier |-> next_frontier,
                         layers |-> p_layers])
       IN  /\ task[c] = "done"
           /\ p_transitions' = p_transitions + Len(out.keys)
           /\ p_seen' = acc.seen
           /\ next_frontier' = acc.next_frontier
           /\ p_layers' = acc.layers
    /\ next_i' = next_i + 1
    /\ UNCHANGED <<workers, batch_size, p_depth, frontier, args_list, task, task_out, pool,
                   result_p, pc, input_vars, bfs_vars, walk_vars, canon_vars>>

\* bfs_parallel, line 245: the next result of ex.map is the exception its
\* chunk raised; it leaves the loop and the function, through the with block
ParRaise ==
    /\ pc = "par_map"
    /\ next_i < Len(args_list)
    /\ task[ChunkIndex(next_i)] = "failed"
    /\ pc' = "par_unwind"
    /\ UNCHANGED <<workers, batch_size, p_seen, p_layers, p_transitions, p_depth, frontier,
                   next_frontier, args_list, task, task_out, next_i, pool, result_p,
                   input_vars, bfs_vars, walk_vars, canon_vars>>

\* the exception leaving bfs_parallel with the pool left as it is
ParAbort_pool_left_open ==
    /\ pc = "par_unwind"
    /\ \A i \in DOMAIN task : task[i] # "running"
    /\ task' = [i \in DOMAIN task |-> IF task[i] = "queued" THEN "cancelled" ELSE task[i]]
    /\ pool' = pool
    /\ pc' = "par_raised"
    /\ UNCHANGED <<workers, batch_size, p_seen, p_layers, p_transitions, p_depth, frontier,
                   next_frontier, args_list, task_out, next_i, result_p,
                   input_vars, bfs_vars, walk_vars, canon_vars>>

\* bfs_parallel, line 213: leaving the with block shuts the pool down; it
\* waits for the running chunks and drops the ones no worker has taken
ParAbort ==
    /\ pc = "par_unwind"
    /\ \A i \in DOMAIN task : task[i] # "running"
    /\ task' = [i \in DOMAIN task |-> IF task[i] = "queued" THEN "cancelled" ELSE task[i]]
    /\ pool' = "closed"
    /\ pc' = "par_raised"
    /\ UNCHANGED <<workers, batch_size, p_seen, p_layers, p_transitions, p_depth, frontier,
                   next_frontier, args_list, task_out, next_i, result_p,
                   input_vars, bfs_vars, walk_vars, canon_vars>>

\* the loop over ex.map left after its first result
ParDepthEnd_after_first_result ==
    /\ pc = "par_map"
    /\ next_i >= 1
    /\ frontier' = next_frontier
    /\ p_depth' = p_depth + 1
    /\ pc' = "par_loop"
    /\ UNCHANGED <<workers, batch_size, p_seen, p_layers, p_transitions, next_frontier,
                   args_list, task, task_out, next_i, pool, result_p,
                   input_vars, bfs_vars, walk_vars, canon_vars>>

\* bfs_parallel, lines 267-269: the frontier of the next depth
ParDepthEnd ==
    /\ pc = "par_map"
    /\ next_i = Len(args_list)
    /\ frontier' = next_frontier
    /\ p_depth' = p_depth + 1
    /\ pc' = "par_loop"
    /\ UNCHANGED <<workers, batch_size, p_seen, p_layers, p_transitions, next_frontier,
                   args_list, task, task_out, next_i, pool, result_p,
                   input_vars, bfs_vars, walk_vars, canon_vars>>

\* bfs_parallel, lines 214, 221-222 and 277-282: the loop ends (range exhausted
\* or empty frontier), the with block shuts the pool down, the dict is returned
ParReturn ==
    /\ pc = "par_loop"
    /\ (p_depth = max_depth \/ Len(frontier) = 0)
    /\ pool' = "closed"
    /\ result_p' = Result(p_seen, p_layers, p_transitions)
    /\ pc' = "done"
    /\ UNCHANGED <<workers, batch_size, p_seen, p_layers, p_transitions, p_depth, frontier,
                   next_frontier, args_list, task, task_out, next_i,
                   input_vars, bfs_vars, walk_vars, canon_vars>>

\* src/src/enumerator.py, _run with parallel = False: the serial engine alone
SerialNext ==
    \/ Construct
    \/ BfsCall
    \/ BfsStep
    \/ BfsRaise
    \/ BfsReturn

SpecSerial == Init /\ [][SerialNext]_vars

Next ==
    \/ Construct
    \/ BfsCall
    \/ BfsStep
    \/ BfsRaise
    \/ BfsReturn
    \/ ParCall
    \/ ParDispatch
    \/ \E i \in DOMAIN task : WorkerTake(i)
    \/ \E i \in DOMAIN task : WorkerFinish(i)
    \/ ParConsume
    \/ ParRaise
    \/ ParAbort
    \/ ParDepthEnd
    \/ ParReturn

Spec == Init /\ [][Next]_vars

----------------------------------------------------------------------------
(* src/src/enumerator.py                                                   *)

\* count_reachable: the reachable_count of the dict the run returned
count_reachable(res) == res.reachable_count

----------------------------------------------------------------------------
(* The claims.                                                             *)

BfsReturned == result_s # NoResult
ParReturned == result_p # NoResult

\* C1: for every protocol, n and max_depth, and any workers and batch_size,
\* bfs and bfs_parallel return the same reachable_count and the same
\* layer_sizes.
C1_SerialParallelAgree ==
    (BfsReturned /\ ParReturned) =>
        /\ result_p.reachable_count = result_s.reachable_count
        /\ result_p.layer_sizes = result_s.layer_sizes

\* the ProtocolStates reached from the states S by at most d admitted calls
RECURSIVE StatesWithin(_, _, _)
StatesWithin(S, proto, d) ==
    IF d = 0 THEN S
    ELSE LET T == S \cup UNION {{update(st, c, proto) :
                                    c \in Range(permitted_calls(st, proto))} : st \in S}
         IN  IF T = S THEN S ELSE StatesWithin(T, proto, d - 1)

KeysWithin(k, proto, d) ==
    {canonical_key(st.distribution.secrets) :
        st \in StatesWithin({ProtocolState_initial(Distribution_initial(k), proto)}, proto, d)}

\* C2: the keys bfs visited (the union of its layers) are exactly the
\* canonical keys of the states reachable from the initial state by at most
\* max_depth admitted calls.
C2_BfsVisitsEveryReachableKey ==
    BfsReturned =>
        UNION {result_s.layers[d] : d \in DOMAIN result_s.layers}
            = KeysWithin(n, protocol, max_depth)

\* C3: relabeling the agents of a distribution, in the positions and in the
\* secret ids alike, leaves its canonical key unchanged.
C3_KeyInvariantUnderRelabeling == c_k1r = c_k1

\* C4: two distributions have equal canonical keys exactly when one is a
\* relabeling of the other.
C4_KeyEqualIffIsomorphic == (c_k1 = c_k2) <=> Isomorphic(c_d1, c_d2)

\* C5: with max_depth = 10, count_reachable is 2 for n = 2 and 4 for n = 3,
\* under each of ANY, CO, LNS, TOK and SPI.
C5_CountsForTwoAndThreeAgents ==
    (BfsReturned /\ max_depth = DefaultMaxDepth) =>
        /\ n = 2 => count_reachable(result_s) = 2
        /\ n = 3 => count_reachable(result_s) = 4

C5_Witness ==
    /\ BfsReturned /\ max_depth = DefaultMaxDepth /\ n = 3 /\ protocol = "SPI"
    /\ count_reachable(result_s) = 4
    /\ result_s.transitions > 0

\* C6: with n = 4 and max_depth = 10 the serial engine reports
\* reachable_count = 16 under SPI.
C6_SixteenUnderSPI ==
    (BfsReturned /\ max_depth = DefaultMaxDepth /\ n = 4 /\ protocol = "SPI") =>
        result_s.reachable_count = 16

\* C7: with n = 4 and max_depth = 10 the serial engine reports
\* reachable_count = 16 under ANY and under TOK.
C7_SixteenUnderANYAndTOK ==
    (BfsReturned /\ max_depth = DefaultMaxDepth /\ n = 4 /\ protocol \in {"ANY", "TOK"}) =>
        result_s.reachable_count = 16

\* C8: with n = 4 and max_depth = 10 the serial engine reports
\* reachable_count = 15 under CO and under LNS.
C8_FifteenUnderCOAndLNS ==
    (BfsReturned /\ max_depth = DefaultMaxDepth /\ n = 4 /\ protocol \in {"CO", "LNS"}) =>
        result_s.reachable_count = 15

C8_Witness ==
    /\ BfsReturned /\ max_depth = DefaultMaxDepth /\ n = 4 /\ protocol = "CO"
    /\ result_s.reachable_count = 15
    /\ 5 \in DOMAIN result_s.layers

\* C9: bfs_parallel ships keys only when the protocol is ANY; under CO, LNS,
\* TOK and SPI every batch sent to a worker holds full ProtocolStates.
C9_KeysModeOnlyUnderANY ==
    \A i \in DOMAIN args_list :
        protocol # "ANY" => args_list[i].mode = "states"

\* the secret agent i owns, as Distribution.initial names it
OwnSecret(i) == <<"str", OrdUpperA + i>>

\* C10: in every state a run of update calls reaches from the initial state
\* the distribution has n secret sets and every agent's set holds its own
\* secret, and a call leaves every agent with a superset of what it held.
C10_DistributionInvariants ==
    /\ [](/\ Len(w_state.distribution.secrets) = n
          /\ \A i \in 1..n : OwnSecret(i - 1) \in w_state.distribution.secrets[i])
    /\ [][\A i \in 1..n : w_state.distribution.secrets[i]
                            \subseteq w_state'.distribution.secrets[i]]_vars

C10_Witness ==
    /\ w_step >= 2
    /\ \E i \in 1..n : Cardinality(w_state.distribution.secrets[i]) >= 3
    /\ \E i \in 1..n : Cardinality(w_state.distribution.secrets[i]) = 1

\* C11: for every state and every call (a, b) with a # b, the successor has
\* secrets[a] = secrets[b] = the union of the two old sets, every other
\* agent's set is unchanged, and the call (b, a) gives the same distribution.
C11_CallMergesBothSets ==
    LET dist == w_state.distribution
    IN  \A a, b \in Range(dist.agents) :
            a # b =>
                LET succ == apply_call(dist, <<a, b>>)
                    ia == Index(dist.agents, a)
                    ib == Index(dist.agents, b)
                    merged == dist.secrets[ia] \cup dist.secrets[ib]
                IN  /\ succ.secrets[ia] = merged
                    /\ succ.secrets[ib] = merged
                    /\ \A i \in (1..Len(dist.secrets)) \ {ia, ib} :
                           succ.secrets[i] = dist.secrets[i]
                    /\ apply_call(dist, <<b, a>>) = succ

C11_Witness ==
    /\ w_step >= 2
    /\ \E i, j \in 1..n :
          /\ ~(w_state.distribution.secrets[i] \subseteq w_state.distribution.secrets[j])
          /\ ~(w_state.distribution.secrets[j] \subseteq w_state.distribution.secrets[i])
          /\ Cardinality(w_state.distribution.secrets[i]) >= 2
          /\ Cardinality(w_state.distribution.secrets[j]) >= 2

\* the callee's secret set is not a subset of the caller's
CallerLearns(state, call) ==
    LET dist == state.distribution
    IN  ~(dist.secrets[Index(dist.agents, call[2])]
            \subseteq dist.secrets[Index(dist.agents, call[1])])

\* C12: under LNS a call (a, b) is admitted exactly when {a, b} is not in
\* called_pairs and the callee's secret set is not a subset of the caller's.
C12_LNSAdmitsUncalledLearningCalls ==
    protocol = "LNS" =>
        \A call \in Range(possible_calls(w_state)) :
            (call \in Range(permitted_calls(w_state, protocol)))
                <=> (/\ {call[1], call[2]} \notin w_state.called_pairs
                     /\ CallerLearns(w_state, call))

\* C12, amended: under LNS a call (a, b) is admitted exactly when the
\* callee's secret set is not a subset of the caller's, whether or not the
\* pair has called before.
C12_LNSAdmitsLearningCalls ==
    protocol = "LNS" =>
        \A call \in Range(possible_calls(w_state)) :
            (call \in Range(permitted_calls(w_state, protocol)))
                <=> CallerLearns(w_state, call)

C12_Witness ==
    /\ protocol = "LNS"
    /\ \E call \in Range(permitted_calls(w_state, protocol)) :
          {call[1], call[2]} \in w_state.called_pairs
    /\ \E call \in Range(possible_calls(w_state)) :
          call \notin Range(permitted_calls(w_state, protocol))

\* the calls of state that the protocol does not admit
NotAdmitted(state, proto) ==
    Range(possible_calls(state)) \ Range(permitted_calls(state, proto))

\* C13: under CO and LNS, a call only adds to called_pairs, and a call that
\* is not admitted in a state is not admitted in the states derived from it.
C13_ExcludedStaysExcluded ==
    [][(protocol \in {"CO", "LNS"}) =>
          (/\ w_state.called_pairs \subseteq w_state'.called_pairs
           /\ NotAdmitted(w_state, protocol) \subseteq NotAdmitted(w_state', protocol))
      ]_vars

\* C13, amended: under CO and LNS a call only adds to called_pairs; under CO
\* a call that is not admitted in a state is not admitted in the states
\* derived from it.
C13_PairsGrowAndCOExcludes ==
    [][(protocol \in {"CO", "LNS"}) =>
          (/\ w_state.called_pairs \subseteq w_state'.called_pairs
           /\ protocol = "CO" =>
                 (NotAdmitted(w_state, protocol) \subseteq NotAdmitted(w_state', protocol)))
      ]_vars

C13_Witness ==
    /\ protocol = "CO"
    /\ w_step >= 2
    /\ Cardinality(w_state.called_pairs) >= 2
    /\ NotAdmitted(w_state, protocol) # {}
    /\ permitted_calls(w_state, protocol) # <<>>

\* the dict of a run that holds the initial key alone
InitialOnly(k) ==
    LET start_key == canonical_key(Distribution_initial(k).secrets)
    IN  [reachable_count |-> 1,
         layers          |-> (0 :> {start_key}),
         layer_sizes     |-> (0 :> 1),
         transitions     |-> 0]

\* C14: with max_depth = 0, for every n and every protocol the constructor
\* accepts, bfs and bfs_parallel return reachable_count = 1, the initial key
\* alone in layers[0], layer_sizes = {0: 1} and transitions = 0, and neither
\* enters its loop, raises or hands a batch to a worker.
C14_DepthZeroReturnsInitialOnly ==
    (max_depth = 0 /\ pc \notin {"new", "ctor_raised"}) =>
        /\ pc \in {"idle", "bfs_done", "done"}
        /\ BfsReturned => result_s = InitialOnly(n)
        /\ ParReturned => result_p = InitialOnly(n)
        /\ pc = "bfs_done" => BfsReturned
        /\ pc = "done" => ParReturned
        /\ transitions = 0 /\ p_transitions = 0
        /\ pool = "none" /\ args_list = <<>> /\ task = <<>>

C14_Witness ==
    /\ max_depth = 0 /\ protocol = "ATK" /\ n = MaxN
    /\ BfsReturned /\ ParReturned
    /\ result_s.layer_sizes = (0 :> 1)
    /\ result_p.reachable_count = 1

\* the sum of the values f takes on D
RECURSIVE SumOver(_, _)
SumOver(f, D) ==
    IF D = {} THEN 0
    ELSE LET d == CHOOSE d \in D : TRUE
         IN  f[d] + SumOver(f, D \ {d})

LayersPartitionCount(res) ==
    /\ DOMAIN res.layer_sizes = DOMAIN res.layers
    /\ \A d \in DOMAIN res.layers : res.layer_sizes[d] = Cardinality(res.layers[d])
    /\ \A d1, d2 \in DOMAIN res.layers : d1 # d2 => res.layers[d1] \cap res.layers[d2] = {}
    /\ SumOver(res.layer_sizes, DOMAIN res.layer_sizes) = res.reachable_count

\* C15: in the dict bfs returns and in the dict bfs_parallel returns,
\* layer_sizes[d] is the size of layers[d] for every recorded depth, the
\* layers are pairwise disjoint, and the layer sizes add up to
\* reachable_count.
C15_LayersPartitionTheCount ==
    /\ BfsReturned => LayersPartitionCount(result_s)
    /\ ParReturned => LayersPartitionCount(result_p)

C15_Witness ==
    /\ BfsReturned /\ ParReturned
    /\ n = MaxN /\ max_depth >= 4
    /\ Cardinality(DOMAIN result_p.layers) >= 5
    /\ Cardinality(DOMAIN result_s.layers) >= 5
    /\ result_p.reachable_count > 10

\* the payloads of the batches, one after the other
RECURSIVE Payloads(_, _)
Payloads(args, i) ==
    IF i > Len(args) THEN <<>> ELSE args[i].payload \o Payloads(args, i + 1)

\* C16: in bfs_parallel no batch of depth d + 1 is dispatched to, or started
\* by, a worker until every batch dispatched for depth d has returned its
\* result to the orchestrator: while the loop is between two depths every
\* chunk is done and every result consumed, and the batches the pool holds
\* are the slices of the frontier of the current depth.
C16_NoDispatchBeforeDepthReturned ==
    /\ pc = "par_loop" =>
          /\ \A i \in DOMAIN task : task[i] = "done"
          /\ next_i = Len(args_list)
    /\ pc = "par_map" =>
          /\ Payloads(args_list, 1) = frontier
          /\ Len(task) = Len(task_out)
          /\ \A i \in DOMAIN task : task[i] \in {"queued", "running"} => task_out[i] = <<>>

C16_Witness ==
    /\ pc = "par_loop"
    /\ p_depth >= 2 /\ p_depth < max_depth
    /\ Len(task) >= 2
    /\ Len(frontier) >= 2

\* C17: in bfs_parallel no batch result of a depth is consumed (no key added
\* to seen or layers[d + 1], nothing appended to the next frontier) while
\* another batch of the same depth has not completed.
C17_NoResultConsumedBeforeAllDone ==
    (pc = "par_map" /\ next_i > 0) => \A i \in DOMAIN task : task[i] = "done"

\* the keys of the batch results the loop has consumed at this depth
ConsumedKeys ==
    LET cs == ChunkSize(Len(args_list), workers)
    IN  UNION {Range(task_out[ChunkIndex(j)][(j % cs) + 1].keys) : j \in 0..(next_i - 1)}

\* C17, amended: in bfs_parallel the results of a depth are consumed one at
\* a time in the order of dispatch, each only after the chunk that holds it
\* has completed; the keys added to layers[d + 1] and to the next frontier
\* come from consumed results only.  Later chunks of the same depth may
\* still be queued or running meanwhile.
C17_ConsumedResultsAreCompleted ==
    pc = "par_map" =>
        /\ \A j \in 0..(next_i - 1) : task[ChunkIndex(j)] = "done"
        /\ Range(next_frontier) \subseteq ConsumedKeys
        /\ (p_depth + 1) \in DOMAIN p_layers => p_layers[p_depth + 1] \subseteq ConsumedKeys
        /\ next_i = 0 => next_frontier = <<>> /\ (p_depth + 1) \notin DOMAIN p_layers

C17_Witness ==
    /\ pc = "par_map"
    /\ next_i >= 1
    /\ next_frontier # <<>>
    /\ \E i \in DOMAIN task : task[i] = "running"
    /\ \E i \in DOMAIN task : task[i] = "queued"

\* the orders in which k batch results can be merged
PermsOf(k) == {f \in [1..k -> 1..k] : \A i, j \in 1..k : f[i] = f[j] => i = j}

\* the loop of lines 245-262 over the batch results outs, in their order
RECURSIVE MergeAll(_, _, _, _, _)
MergeAll(keys_mode, outs, depth, i, acc) ==
    IF i > Len(outs) THEN acc
    ELSE MergeAll(keys_mode, outs, depth, i + 1, Merge(keys_mode, outs[i], depth, 1, acc))

\* what bfs_parallel goes on to compute from the frontier acc.next_frontier
\* of the given depth: its seen set and its layers when the loop ends
RECURSIVE RestOfRun(_, _)
RestOfRun(acc, depth) ==
    IF depth >= max_depth \/ acc.next_frontier = <<>>
    THEN [seen |-> acc.seen, layers |-> acc.layers]
    ELSE LET batches == chunked(acc.next_frontier, batch_size)
             outs == [i \in 1..Len(batches) |->
                         expand_batch([mode |-> IF use_keys_mode THEN "keys" ELSE "states",
                                       payload |-> batches[i], protocol |-> protocol])]
         IN  RestOfRun(MergeAll(use_keys_mode, outs, depth, 1,
                                [seen |-> acc.seen, next_frontier |-> <<>>,
                                 layers |-> acc.layers]),
                       depth + 1)

\* every batch of the depth has returned and none has been merged yet
AllReturnedNoneMerged ==
    /\ pc = "par_map"
    /\ next_i = 0
    /\ \A i \in DOMAIN task : task[i] = "done"

\* the batch results of the depth, in the order of args_list
BatchResults ==
    LET cs == ChunkSize(Len(args_list), workers)
    IN  [j \in 1..Len(args_list) |-> task_out[ChunkIndex(j - 1)][((j - 1) % cs) + 1]]

\* what merging the batch results of the depth gives, for every order
MergedInAnyOrder ==
    {MergeAll(use_keys_mode, [i \in 1..Len(BatchResults) |-> BatchResults[f[i]]], p_depth, 1,
              [seen |-> p_seen, next_frontier |-> <<>>, layers |-> p_layers]) :
        f \in PermsOf(Len(BatchResults))}

\* C18: for every protocol and depth, merging the batch results of the
\* depth in any order gives the same seen set and the same layers[d + 1],
\* and the same layers at every later depth, so reachable_count and
\* layer_sizes at the end do not depend on the order.
C18_MergeOrderImmaterial ==
    AllReturnedNoneMerged =>
        /\ \A m1, m2 \in MergedInAnyOrder : m1.seen = m2.seen /\ m1.layers = m2.layers
        /\ Cardinality({RestOfRun(m, p_depth + 1) : m \in MergedInAnyOrder}) = 1

C18_Witness ==
    /\ AllReturnedNoneMerged
    /\ Len(args_list) >= 3
    /\ p_depth + 1 < max_depth
    /\ Cardinality(MergedInAnyOrder) >= 2

\* a call of _expand_batch has raised in a worker
WorkerRaised == \E i \in DOMAIN task : task[i] = "failed"

\* C19: when expanding a batch raises in a worker (as it does for ATK, which
\* has no admission rule), the exception leaves bfs_parallel: no dict is
\* returned, the loop does not go on to another depth, the chunk is not run
\* again, the shipping mode is not changed and the serial engine is not run.
C19_WorkerExceptionPropagates ==
    /\ [](WorkerRaised =>
            /\ pc \in {"par_map", "par_unwind", "par_raised"}
            /\ result_p = NoResult
            /\ use_keys_mode = KEYS_MODE_AVAILABLE
            /\ \A i \in DOMAIN args_list :
                   args_list[i].mode = (IF use_keys_mode THEN "keys" ELSE "states")
            /\ seen = {} /\ queue = <<>> /\ result_s = NoResult
            /\ pc = "par_raised" => pool = "closed")
    /\ [][WorkerRaised =>
            /\ \A i \in DOMAIN task : task[i] = "failed" =>
                   (i \in DOMAIN task' /\ task'[i] = "failed" /\ task_out'[i] = task_out[i])
            /\ UNCHANGED <<p_seen, p_layers, p_depth, frontier, args_list, result_p>>]_vars

C19_Witness ==
    /\ protocol = "ATK" /\ n >= 2 /\ max_depth >= 1
    /\ pc = "par_raised"
    /\ WorkerRaised
    /\ \E i \in DOMAIN task : \E j \in DOMAIN task_out[i] : task_out[i][j].error = "KeyError"

\* the loop of bfs_parallel is at the start of a depth below max_depth and
\* the frontier is empty
EmptyFrontierEarly == pc = "par_loop" /\ Len(frontier) = 0 /\ p_depth < max_depth

\* C20: when the frontier at the start of a depth d < max_depth is empty,
\* bfs_parallel stops iterating without raising and returns the dict of what
\* it has found, whose layers are the non-empty layers 0..d-1; no batch is
\* dispatched for that depth or any later one.
C20_EmptyFrontierEndsTheRun ==
    /\ [][EmptyFrontierEarly =>
            /\ pc' = "done"
            /\ pool' = "closed"
            /\ result_p' = Result(p_seen, p_layers, p_transitions)
            /\ DOMAIN result_p'.layers = 0..(p_depth - 1)
            /\ \A d \in DOMAIN result_p'.layers : result_p'.layers[d] # {}
            /\ UNCHANGED <<p_seen, p_layers, p_depth, frontier, args_list, task, task_out>>]_vars
    /\ [][pc = "done" => UNCHANGED <<pc, par_vars>>]_vars

C20_Witness ==
    /\ pc = "done" /\ pool = "closed"
    /\ n = MaxN
    /\ Len(frontier) = 0 /\ p_depth < max_depth
    /\ p_depth >= 2
    /\ DOMAIN result_p.layers = 0..(p_depth - 1)

\* bfs_parallel has returned or raised
ParExited == ParReturned \/ pc = "par_raised"

\* bfs_parallel is inside its with block
ParInLoop == pc \in {"par_loop", "par_map", "par_unwind"}

\* C21: in every bfs_parallel run the pool is created once, the same pool
\* serves every depth, and it has been shut down exactly once when
\* bfs_parallel returns or raises.
C21_PoolOpenedAndClosedOnce ==
    /\ [](ParExited => pool = "closed")
    /\ [](ParInLoop => pool = "open")
    /\ [][(pool' # pool) => ((pool = "none" /\ pool' = "open")
                               \/ (pool = "open" /\ pool' = "closed"))]_vars

\* C21, amended: in every bfs_parallel run with max_depth >= 1 the pool is
\* created once, the same pool serves every depth, and it has been shut down
\* exactly once when bfs_parallel returns or raises; with max_depth = 0
\* bfs_parallel returns before it creates a pool.
C21_PoolOpenedAndClosedOnceIfLooping ==
    /\ [](ParExited => pool = (IF max_depth = 0 THEN "none" ELSE "closed"))
    /\ [](ParInLoop => pool = "open" /\ max_depth >= 1)
    /\ [][(pool' # pool) =>
             ((pool = "none" /\ pool' = "open" /\ pc \in {"idle", "bfs_done"})
                 \/ (pool = "open" /\ pool' = "closed" /\ ParInLoop))]_vars

C21_Witness ==
    /\ pc = "par_raised" /\ pool = "closed"
    /\ max_depth >= 1

\* C22: if caller and callee hold equal secret sets, the call leaves the
\* distribution unchanged, and so the canonical key of the successor is the
\* canonical key of the state before the call, under every protocol.
C22_CallBetweenEqualsChangesNothing ==
    \A call \in Range(possible_calls(w_state)) :
        LET dist == w_state.distribution
            succ == update(w_state, call, protocol)
        IN  dist.secrets[Index(dist.agents, call[1])] = dist.secrets[Index(dist.agents, call[2])]
                => /\ succ.distribution = dist
                   /\ apply_call(dist, call) = dist
                   /\ canonical_key(succ.distribution.secrets) = canonical_key(dist.secrets)

C22_Witness ==
    /\ w_step >= 2
    /\ ~is_final(w_state.distribution)
    /\ \E call \in Range(permitted_calls(w_state, protocol)) :
          LET dist == w_state.distribution
          IN  /\ dist.secrets[Index(dist.agents, call[1])]
                    = dist.secrets[Index(dist.agents, call[2])]
              /\ Cardinality(dist.secrets[Index(dist.agents, call[1])]) >= 3

\* C23: constructing ReachabilityEngine succeeds for exactly the names ANY,
\* CO, LNS, TOK, SPI and ATK; for every other name it raises at once and
\* nothing of an exploration exists afterwards.
C23_ConstructorAcceptsSixNames ==
    /\ protocol \in {"ANY", "CO", "LNS", "TOK", "SPI", "ATK"} => pc # "ctor_raised"
    /\ protocol \notin {"ANY", "CO", "LNS", "TOK", "SPI", "ATK"} =>
          /\ pc \in {"new", "ctor_raised"}
          /\ EngineFresh
          /\ use_keys_mode = FALSE

C23_Witness ==
    /\ pc = "ctor_raised"
    /\ protocol = "any"

\* C24: in the initial state for n agents (each agent knows its own secret
\* alone, called_pairs is empty, every agent holds a token under TOK and SPI
\* and nobody does otherwise) permitted_calls returns all n * (n - 1) ordered
\* pairs (a, b) with a # b, under each of ANY, CO, LNS, TOK and SPI.
C24_InitialStateAdmitsEveryCall ==
    w_step = 0 =>
        /\ \A i \in 1..n : w_state.distribution.secrets[i] = {OwnSecret(i - 1)}
        /\ w_state.called_pairs = {}
        /\ w_state.tokens = (IF protocol \in {"TOK", "SPI"} THEN 0..(n - 1) ELSE {})
        /\ Len(permitted_calls(w_state, protocol)) = n * (n - 1)
        /\ Range(permitted_calls(w_state, protocol))
              = {c \in (0..(n - 1)) \X (0..(n - 1)) : c[1] # c[2]}

C24_Witness ==
    /\ w_step = 0 /\ w_ret = -1
    /\ n = MaxN /\ protocol = "SPI"
    /\ Len(permitted_calls(w_state, protocol)) = MaxN * (MaxN - 1)

\* the secret sets with every character 'A', 'B', ... written as 0, 1, ...
WrittenWithIntegers(secret_sets) ==
    [i \in 1..Len(secret_sets) |->
        {IF v[1] = "str" THEN <<"int", v[2] - OrdUpperA>> ELSE v : v \in secret_sets[i]}]

\* C25: canonical_key gives the same key for secret sets written with single
\* uppercase characters as for the same sets written with integers under
\* 'A' -> 0, 'B' -> 1, ...; [{0,1},{2}] and [{'A','B'},{'C'}] both give
\* ((0,1),(2,)).
C25_CharactersAndIntegersAgree ==
    /\ \A v \in UNION Range(c_d1.secrets) : v[1] = "str"
    /\ canonical_key(WrittenWithIntegers(c_d1.secrets)) = c_k1
    /\ canonical_key(WrittenWithIntegers(Relabel(c_d1, c_perm).secrets)) = c_k1r
    /\ canonical_key(<<{<<"int", 0>>, <<"int", 1>>}, {<<"int", 2>>}>>) = <<<<0, 1>>, <<2>>>>
    /\ canonical_key(<<{<<"str", OrdUpperA>>, <<"str", OrdUpperA + 1>>},
                       {<<"str", OrdUpperA + 2>>}>>) = <<<<0, 1>>, <<2>>>>

C25_Witness ==
    /\ n = MaxCanonN
    /\ c_d1 # Distribution_initial(n)
    /\ ~is_final(c_d1)
    /\ c_perm # [i \in 0..(n - 1) |-> i]
    /\ \E i \in 1..n : Cardinality(c_d1.secrets[i]) = 2

\* the canonical keys of the admitted successors of a state
SuccessorKeys(state, proto) ==
    {canonical_key(update(state, c, proto).distribution.secrets) :
        c \in Range(permitted_calls(state, proto))}

\* C26: the state a worker rebuilds from a canonical key has the same
\* admitted successor keys as the state the key was computed from, for every
\* state reachable under the protocol.
C26_RebuiltStateHasSameSuccessors ==
    SuccessorKeys(build_state_from_key(canonical_key(w_state.distribution.secrets), protocol),
                  protocol)
        = SuccessorKeys(w_state, protocol)

\* bfs pops a state in this step
BfsPops == pc = "bfs" /\ pc' = "bfs" /\ queue # <<>> /\ queue' # queue

\* C27: in the serial bfs, transitions is the sum, over the states popped
\* with depth < max_depth, of the number of distinct canonical keys among the
\* state's admitted successors: it starts at 0, every pop adds that number
\* (whether or not the keys are already visited), and the dict returns it.
C27_TransitionsCountDistinctSuccessorKeys ==
    /\ [](pc \in {"new", "idle"} => transitions = 0)
    /\ [][(pc = "idle" /\ pc' # "idle") => transitions' = 0]_vars
    /\ [][BfsPops =>
            transitions' = transitions +
                (IF Head(queue)[2] < max_depth
                 THEN Cardinality(SuccessorKeys(Head(queue)[1], protocol))
                 ELSE 0)]_vars
    /\ [](BfsReturned => result_s.transitions = transitions)

C27_Witness ==
    /\ BfsReturned
    /\ n = MaxN /\ max_depth >= 3
    /\ result_s.transitions > result_s.reachable_count

\* the ProtocolStates produced by exactly d admitted calls from the states S
RECURSIVE StatesAfterExactly(_, _, _)
StatesAfterExactly(S, proto, d) ==
    IF d = 0 THEN S
    ELSE StatesAfterExactly(
             UNION {{update(st, c, proto) : c \in Range(permitted_calls(st, proto))} : st \in S},
             proto, d - 1)

\* every key of layers_[d], layers_[d + 1], ... is the key of a state of S,
\* of a state one admitted call after S, ...
RECURSIVE LayersFollow(_, _, _, _)
LayersFollow(S, proto, d, layers_) ==
    /\ d \in DOMAIN layers_ =>
           layers_[d] \subseteq {canonical_key(st.distribution.secrets) : st \in S}
    /\ d < Max(DOMAIN layers_) =>
           LayersFollow(StatesAfterExactly(S, proto, 1), proto, d + 1, layers_)

\* the depths of layers_ are within 0..max_depth and every key of a layer is
\* the key of a state exactly that many calls from the initial state
LayersAtTheirDepth(layers_) ==
    /\ DOMAIN layers_ \subseteq 0..max_depth
    /\ LayersFollow({ProtocolState_initial(Distribution_initial(n), protocol)},
                    protocol, 0, layers_)

\* C28: in both engines no state at depth max_depth is expanded: every depth
\* recorded in layers is between 0 and max_depth, and every key in layers[d]
\* is the key of a state produced by exactly d calls from the initial state.
C28_LayersWithinMaxDepth ==
    /\ pc = "bfs_done" => LayersAtTheirDepth(result_s.layers)
    /\ pc = "done" => LayersAtTheirDepth(result_p.layers)
    /\ DOMAIN layers \subseteq 0..max_depth
    /\ DOMAIN p_layers \subseteq 0..max_depth
    /\ \A i \in DOMAIN queue : queue[i][2] <= max_depth
    /\ p_depth <= max_depth

C28_Witness ==
    /\ BfsReturned /\ ParReturned
    /\ n = MaxN
    /\ max_depth \in DOMAIN result_s.layers
    /\ max_depth \in DOMAIN result_p.layers
    /\ max_depth >= 3
    /\ p_transitions > 0

\* the canonical key of a queue entry <<state, depth>>
EntryKey(entry) == canonical_key(entry[1].distribution.secrets)

\* the entries bfs enqueues when it pops <<state, depth>> with the keys in
\* visited already seen: for each key that is not visited, the first admitted
\* successor with that key, in the order of the admitted calls
FirstDiscovered(state, depth, visited) ==
    LET calls == permitted_calls(state, protocol)
        succ(i) == update(state, calls[i], protocol)
        key(i) == canonical_key(succ(i).distribution.secrets)
        first(i) == key(i) \notin visited /\ \A j \in 1..(i - 1) : key(j) # key(i)
        idx == SelectSeq([i \in 1..Len(calls) |-> i], first)
    IN  [m \in 1..Len(idx) |-> <<succ(idx[m]), depth + 1>>]

\* C29: in the serial bfs a successor whose key is already in visited is never
\* enqueued: the queue never holds two states with one key, every queued key
\* is visited, visited only grows, and a pop enqueues exactly the first
\* successor, in the order of the admitted calls, of each key not yet visited;
\* so at most one ProtocolState per key is ever enqueued and expanded.
C29_OneStateEnqueuedPerKey ==
    /\ [](pc = "bfs" =>
            /\ \A i \in DOMAIN queue : EntryKey(queue[i]) \in seen
            /\ \A i, j \in DOMAIN queue : i # j => EntryKey(queue[i]) # EntryKey(queue[j]))
    /\ [][(pc = "bfs" /\ pc' = "bfs") => seen \subseteq seen']_vars
    /\ [][BfsPops =>
            queue' = Tail(queue) \o
                (IF Head(queue)[2] < max_depth
                 THEN FirstDiscovered(Head(queue)[1], Head(queue)[2], seen)
                 ELSE <<>>)]_vars

\* a run where successors with a visited key were counted and discarded while
\* other states wait in the queue
C29_Witness ==
    /\ pc = "bfs"
    /\ n = MaxN
    /\ Len(queue) >= 2
    /\ transitions > Cardinality(seen) - 1

\* no element occurs twice in seq
NoDuplicates(seq) == \A i, j \in DOMAIN seq : i # j => seq[i] # seq[j]

\* C30: bfs_parallel's transitions is the total number of keys returned by
\* all batches (it starts at 0, every consumed batch result adds the length of
\* its key list, and the dict returns the total), no returned key list holds
\* a key twice, and for the same protocol, n and max_depth the parallel
\* transitions never exceeds the serial transitions.
C30_ParallelTransitionsAtMostSerial ==
    /\ [](pc = "par_loop" /\ p_depth = 0 => p_transitions = 0)
    /\ [][(pc = "par_map" /\ next_i' = next_i + 1) =>
            p_transitions' = p_transitions
                + Len(task_out[ChunkIndex(next_i)]
                        [(next_i % ChunkSize(Len(args_list), workers)) + 1].keys)]_vars
    /\ [](\A c \in DOMAIN task_out : \A i \in DOMAIN task_out[c] :
            NoDuplicates(task_out[c][i].keys))
    /\ [](ParReturned => result_p.transitions = p_transitions)
    /\ []((BfsReturned /\ ParReturned) => result_p.transitions <= result_s.transitions)

\* C31: under TOK a call (a, b) is admitted exactly when a is in tokens, and
\* the successor's tokens are (tokens minus {a}) union {b}: the caller holds
\* no token, the callee holds one, every other agent is as before.
C31_TOKPassesTheToken ==
    protocol = "TOK" =>
        \A call \in Range(possible_calls(w_state)) :
            LET a == call[1]
                b == call[2]
                admitted == call \in Range(permitted_calls(w_state, protocol))
                after == update(w_state, call, protocol).tokens
            IN  /\ admitted <=> a \in w_state.tokens
                /\ admitted =>
                      /\ after = (w_state.tokens \ {a}) \cup {b}
                      /\ a \notin after
                      /\ b \in after
                      /\ \A x \in Range(w_state.distribution.agents) \ {a, b} :
                            x \in after <=> x \in w_state.tokens

\* a TOK state some calls in, where one agent may call and another may not,
\* and a token holder may call another token holder
C31_Witness ==
    /\ protocol = "TOK"
    /\ n = MaxN
    /\ w_step >= 2
    /\ \E call \in Range(permitted_calls(w_state, protocol)) : call[2] \in w_state.tokens
    /\ \E call \in Range(possible_calls(w_state)) : call[1] \notin w_state.tokens

\* the agents that are the caller of an admitted call in state
Callers(state, proto) == {c[1] : c \in Range(permitted_calls(state, proto))}

\* how many calls after a call its descendants are looked at
DescendantDepth == 2

\* C32: under SPI a call (a, b) is admitted exactly when a is in tokens, the
\* successor's tokens are tokens minus {b}, tokens never gains an agent, and
\* the callee of a call is not admitted as a caller in the successor nor in
\* the states that follow it.
C32_SPICalleeNeverCallsAgain ==
    /\ [](protocol = "SPI" =>
            \A call \in Range(possible_calls(w_state)) :
                LET a == call[1]
                    b == call[2]
                    admitted == call \in Range(permitted_calls(w_state, protocol))
                    succ == update(w_state, call, protocol)
                IN  /\ admitted <=> a \in w_state.tokens
                    /\ admitted =>
                          /\ succ.tokens = w_state.tokens \ {b}
                          /\ \A d \in 0..DescendantDepth :
                                \A st \in StatesAfterExactly({succ}, protocol, d) :
                                    b \notin Callers(st, protocol))
    /\ [][(protocol = "SPI") => (w_state'.tokens \subseteq w_state.tokens)]_vars

\* an SPI state some calls in where some agents have lost their token and a
\* token holder may still call one that holds a token
C32_Witness ==
    /\ protocol = "SPI"
    /\ n = MaxN
    /\ w_step >= 2
    /\ Cardinality(w_state.tokens) = 2
    /\ \E call \in Range(permitted_calls(w_state, protocol)) : call[2] \in w_state.tokens

\* C33: under CO a call (a, b) is admitted exactly when the unordered pair
\* {a, b} is not in called_pairs; under every protocol update adds {a, b} to
\* called_pairs and leaves the pairs recorded before in place.
C33_PairsRecordedUnderEveryProtocol ==
    \A call \in Range(possible_calls(w_state)) :
        LET pair == {call[1], call[2]}
            after == update(w_state, call, protocol).called_pairs
        IN  /\ protocol = "CO" =>
                  (call \in Range(permitted_calls(w_state, protocol))
                      <=> pair \notin w_state.called_pairs)
            /\ pair \in after
            /\ w_state.called_pairs \subseteq after
            /\ after = w_state.called_pairs \cup {pair}

\* a state of a protocol that never reads called_pairs, with several pairs
\* recorded and one of them called more than once
C33_Witness ==
    /\ protocol = "TOK"
    /\ n = MaxN
    /\ Cardinality(w_state.called_pairs) >= 2
    /\ Cardinality(w_state.called_pairs) < w_step

\* the seen set and the layers of the level-by-level search over keys that
\* expands, at each depth below max_depth, the state rebuilt from every key
\* of the level (the ProtocolStates themselves where states are shipped)
RECURSIVE LevelSearch(_, _, _, _)
LevelSearch(level, seen_, layers_, d) ==
    IF d >= max_depth \/ level = {} THEN [seen |-> seen_, layers |-> layers_]
    ELSE LET new == UNION {SuccessorKeys(build_state_from_key(k, protocol), protocol) :
                              k \in level} \ seen_
         IN  LevelSearch(new, seen_ \cup new,
                         IF new = {} THEN layers_ ELSE layers_ @@ ((d + 1) :> new), d + 1)

\* what bfs_parallel returns for (protocol, n, max_depth), transitions aside,
\* written without workers and batch_size
ParallelOutcome ==
    LET start_key == canonical_key(Distribution_initial(n).secrets)
        run == LevelSearch({start_key}, {start_key}, (0 :> {start_key}), 0)
    IN  [reachable_count |-> Cardinality(run.seen),
         layers          |-> run.layers,
         layer_sizes     |-> [d \in DOMAIN run.layers |-> Cardinality(run.layers[d])]]

\* C34: the reachable_count, layers and layer_sizes bfs_parallel returns for
\* (protocol, n, max_depth) are the same for every workers >= 1 and every
\* batch_size >= 1: they are a function of protocol, n and max_depth alone.
C34_ParallelResultIndependentOfBatching ==
    (pc = "done" /\ use_keys_mode) =>
        /\ result_p.reachable_count = ParallelOutcome.reachable_count
        /\ result_p.layers = ParallelOutcome.layers
        /\ result_p.layer_sizes = ParallelOutcome.layer_sizes

\* a returned run whose levels were split into several batches, handed to
\* two workers
C34_Witness ==
    /\ pc = "done"
    /\ use_keys_mode
    /\ n = MaxN
    /\ batch_size = MaxBatch
    /\ workers = MaxWorkers
    /\ max_depth >= 4
    /\ result_p.reachable_count >= 10
    /\ result_p.transitions > 0

\* C35: canonical_key is idempotent on its own output: for every distribution
\* d reachable by calls, canonical_key(canonical_key(d.secrets)) is
\* canonical_key(d.secrets).
C35_CanonicalKeyIdempotent == c_k2 = c_k1

\* C36: under TOK and under SPI with n >= 2, in every state reachable from
\* the initial state by admitted calls tokens is non-empty and some call is
\* admitted, and no call makes tokens larger.
C36_TokensNeverRunOut ==
    /\ []((protocol \in {"TOK", "SPI"} /\ n >= 2) =>
            /\ w_state.tokens # {}
            /\ permitted_calls(w_state, protocol) # <<>>)
    /\ [][(protocol \in {"TOK", "SPI"} /\ n >= 2) =>
            (Cardinality(w_state'.tokens) <= Cardinality(w_state.tokens))]_vars

\* a state where all tokens but one are gone and the holder may still call
C36_Witness ==
    /\ protocol \in {"TOK", "SPI"}
    /\ n = MaxN
    /\ Cardinality(w_state.tokens) = 1
    /\ w_step >= n - 1
    /\ Len(permitted_calls(w_state, protocol)) = n - 1

\* C37: under LNS every admitted call strictly enlarges the caller's secret
\* set, no call is admitted in a final distribution, and every sequence of
\* admitted calls from the initial state ends: after k calls the agents know
\* at least n + k secrets in total, so k is at most n * (n - 1).
C37_LNSSequencesEnd ==
    protocol = "LNS" =>
        /\ \A call \in Range(permitted_calls(w_state, protocol)) :
               LET ia == Index(w_state.distribution.agents, call[1])
                   before == w_state.distribution.secrets[ia]
                   after == update(w_state, call, protocol).distribution.secrets[ia]
               IN  before \subseteq after /\ before # after
        /\ is_final(w_state.distribution) => permitted_calls(w_state, protocol) = <<>>
        /\ Known(w_state.distribution.secrets, 1) >= n + w_step
        /\ w_step <= n * (n - 1)

\* the end of a longest LNS sequence: everybody knows everything
C37_Witness ==
    /\ protocol = "LNS"
    /\ n >= 3
    /\ w_step = (n * (n - 1)) \div 2
    /\ is_final(w_state.distribution)
    /\ permitted_calls(w_state, protocol) = <<>>

\* C38: under CO a state reached by k admitted calls has exactly k unordered
\* pairs in called_pairs, no admitted call repeats a recorded pair, and every
\* sequence ends: k is at most n * (n - 1) / 2, and after that many calls no
\* call is admitted.
C38_COSequencesEnd ==
    protocol = "CO" =>
        /\ Cardinality(w_state.called_pairs) = w_step
        /\ \A pair \in w_state.called_pairs :
               pair \subseteq Range(w_state.distribution.agents) /\ Cardinality(pair) = 2
        /\ \A call \in Range(permitted_calls(w_state, protocol)) :
               {call[1], call[2]} \notin w_state.called_pairs
        /\ w_step <= (n * (n - 1)) \div 2
        /\ w_step = (n * (n - 1)) \div 2 => permitted_calls(w_state, protocol) = <<>>

\* the end of a CO sequence: every pair has been called once
C38_Witness ==
    /\ protocol = "CO"
    /\ n >= 3
    /\ w_step = (n * (n - 1)) \div 2
    /\ Cardinality(w_state.called_pairs) = w_step
    /\ possible_calls(w_state) # <<>>
    /\ permitted_calls(w_state, protocol) = <<>>

====
